---- MODULE Spec2Model ----
(***************************************************************************)
(* Model of the issue-handler subsystem of robottelo:                      *)
(*   robottelo/utils/issue_handlers/jira.py   (resolver)                   *)
(*   pytest_plugins/issue_handlers.py         (collector and applier)      *)
(*                                                                         *)
(* Python values are modelled by what they are at run time:                *)
(*   - an issue record is a dict living on a heap (dicts are shared by     *)
(*     reference: the same dict can sit in the batch list, in a memo, in   *)
(*     the collected index and in another record's dupe_data);             *)
(*   - the value returned by is_open_jr is "True", "False" (only when      *)
(*     stored in a record), or "Version0", the object Version('0') that    *)
(*     `x or Version('0')` evaluates to when x is False;                   *)
(*   - an exception ends the run with pc = "error" and `error` naming it.  *)
(*   - a cache file is the list of its entries; a Version written to it   *)
(*     and read back is the string "0".                                    *)
(*   - a product version 6.<n> is the integer n (6.9 < 6.10 < 6.11).       *)
(* An issue key "JR:<number>" is modelled by its number.                   *)
(***************************************************************************)
EXTENDS Integers, Sequences, FiniteSets, TLC

VARIABLES
    sat_version,      \* get_sat_version(): minor number of the server version
    tracker,          \* the remote Jira content: number -> raw record
    api_key,          \* settings.jira.api_key is set
    use_bz_cache,     \* --bz-cache was passed
    use_jr_cache,     \* --jr-cache was passed
    bz_file,          \* bz_cache.json: [exists, meta, ent]
    jr_file,          \* jr_cache.json: [exists, meta, ent]
    cached_data,      \* injected cache: sequence of <<number, address>> (<<>> when None or {})
    cache_is_none,    \* generate_issue_collection: cached_data is None
    loaded,           \* number of heap records that came from the cache file
    heap,             \* the issue record dicts, by address 1..Len(heap)
    memo_get_data,    \* CACHED_RESPONSES['get_data']: set of numbers -> list of addresses
    memo_get_single,  \* CACHED_RESPONSES['get_single']: number -> address (0: no entry)
    collected_data,   \* the collected index: number -> [data, used_in, is_dupe] once the key exists
    items,            \* the test items and the markers they carry
    bz_filters,       \* --BZ: [given, vals]
    jr_filters,       \* --JR: [given, vals]
    jr_data,          \* collect_data_jr: the list it iterates over
    idx,              \* collect_data_jr: position in jr_data; modifyitems: position in items
    cur,              \* collect_dupes: the record being examined
    call,             \* the get_data_jr call waiting for the remote tracker: [nums, ret]
    attempt,          \* attempts made by the get_data_jr call in progress
    requests,         \* remote requests sent in this run
    selected,         \* pytest_collection_modifyitems: selected
    deselected,       \* pytest_collection_modifyitems: deselected
    pc,               \* position of the run
    error,            \* the exception that ended the run ("" when none)
    redmine,          \* decorators.py _redmine: [closed_statuses, issues]
    redmine_source,   \* the issue_statuses.json response the memo was built from
    redmine_call,     \* the last call into decorators.py and how it ended
    settings_cdn,     \* repository_mixins.py: settings.robottelo.cdn
    collection,       \* a RepositoryCollection: its attributes
    repo_call         \* the last call into repository_mixins.py and how it ended

vars == <<sat_version, tracker, api_key, use_bz_cache, use_jr_cache, bz_file,
          jr_file, cached_data, cache_is_none, loaded, heap, memo_get_data,
          memo_get_single, collected_data, items, bz_filters, jr_filters,
          jr_data, idx, cur, call, attempt, requests, selected, deselected,
          pc, error, redmine, redmine_source, redmine_call, settings_cdn,
          collection, repo_call>>

----------------------------------------------------------------------------
(* Constants of jira.py *)

OPEN_STATUSES == {"New", "Backlog", "Refinement", "To Do", "In Progress", "Review"}

CLOSED_STATUSES == {"Release Pending", "Closed"}

WONTFIX_RESOLUTIONS == "Obsolete"

StopAfterAttempt == 4

----------------------------------------------------------------------------
(* Bounded input domains *)

Numbers == {"A", "B", "C"}

NumberOrder == <<"A", "B", "C">>

\* the highest minor version a server reports
MaxVersion == 11

Versions == 9..MaxVersion

\* the number of test items of a filter run
FilterItems == 2

\* the number of test items of a marker run
MarkerRunItems == 2

\* the longest status list an issue_statuses.json response holds
MaxStatuses == 2

\* the most items a RepositoryCollection is given
MaxItems == 2

\* the longest list passed to add_items
MaxAdd == 2

\* the ids of the Redmine issue statuses, and the Redmine issues tests refer to
StatusIds == {1, 2}

Bugs == {1, 2}

NoneValue == "None"

----------------------------------------------------------------------------
(* Python helpers *)

\* the characters of the resolution strings, so that `a in b` on two strings
\* can be computed as the substring test it is
Chars(s) ==
    CASE s = "" -> <<>>
      [] s = "Obs" -> <<"O", "b", "s">>
      [] s = "Done" -> <<"D", "o", "n", "e">>
      [] s = "Obsolete" -> <<"O", "b", "s", "o", "l", "e", "t", "e">>
      [] s = "Duplicate" -> <<"D", "u", "p", "l", "i", "c", "a", "t", "e">>

\* str.__contains__: a in b for strings a, b
StrContains(a, b) ==
    LET x == Chars(a)
        y == Chars(b)
    IN  /\ Len(x) <= Len(y)
        /\ \E i \in 0..(Len(y) - Len(x)) : SubSeq(y, i + 1, i + Len(x)) = x

\* min() of a non-empty collection of versions
Min(S) == CHOOSE m \in S : \A x \in S : m <= x

\* bool(v) of a value is_open_jr can return: Version('0') defines neither
\* __bool__ nor __len__, so it is true
\* "0" is Version('0') once written to a cache file and read back: a string
Truthy(v) == v \in {"True", "Version0", "0"}

----------------------------------------------------------------------------
(* Issue records *)

\* a record as the tracker returns it: no derived field
RawRecord(n, st, res, fix, dup) ==
    [id |-> n, status |-> st, resolution |-> res, fixVersions |-> fix,
     dupe_of |-> dup, is_open |-> NoneValue, is_deselected |-> NoneValue,
     dupe_data |-> 0]

\* a default record that stores no is_open
DefaultWithoutIsOpen(number) ==
    [id |-> number, status |-> "", resolution |-> "", fixVersions |-> {},
     dupe_of |-> NoneValue, is_open |-> NoneValue, is_deselected |-> "False",
     dupe_data |-> 0]

\* get_default_jr: no fixVersions key. A missing and an empty fixVersions are
\* both the empty set: min() raises on either (TypeError, ValueError), "MinError"
get_default_jr(number) ==
    [id |-> number, status |-> "", resolution |-> "", fixVersions |-> {},
     dupe_of |-> NoneValue, is_open |-> "True", is_deselected |-> "False",
     dupe_data |-> 0]

\* follow_duplicates, from address a of heap h. A chain longer than the heap
\* revisits a record: the recursion never returns (0: RecursionError).
RECURSIVE FollowFrom(_, _, _)
FollowFrom(h, a, fuel) ==
    IF h[a].dupe_data = 0 THEN a
    ELSE IF fuel = 0 THEN 0
    ELSE FollowFrom(h, h[a].dupe_data, fuel - 1)

follow_duplicates(h, a) == FollowFrom(h, a, Len(h))

\* is_open_jr lines 37-48, on the duplicate-followed record jr
\* variants of IsOpenComputed with one of its branches lost or changed
IsOpenNoObsolete(jr) ==
    IF jr.status \in OPEN_STATUSES THEN "True"
    ELSE IF jr.fixVersions = {} THEN "MinError"
    ELSE IF sat_version < Min(jr.fixVersions) THEN "True"
    ELSE "Version0"

IsOpenNoOpenStatus(jr) ==
    IF jr.status \in CLOSED_STATUSES
       /\ StrContains(jr.resolution, WONTFIX_RESOLUTIONS) THEN "True"
    ELSE IF jr.fixVersions = {} THEN "MinError"
    ELSE IF sat_version < Min(jr.fixVersions) THEN "True"
    ELSE "Version0"

IsOpenReversedCompare(jr) ==
    IF jr.status \in OPEN_STATUSES THEN "True"
    ELSE IF jr.status \in CLOSED_STATUSES
            /\ StrContains(jr.resolution, WONTFIX_RESOLUTIONS) THEN "True"
    ELSE IF jr.fixVersions = {} THEN "MinError"
    ELSE IF sat_version > Min(jr.fixVersions) THEN "True"
    ELSE "Version0"

IsOpenComputed(jr) ==
    IF jr.status \in OPEN_STATUSES THEN "True"
    ELSE IF jr.status \in CLOSED_STATUSES
            /\ StrContains(jr.resolution, WONTFIX_RESOLUTIONS) THEN "True"
    ELSE IF jr.fixVersions = {} THEN "MinError"
    ELSE IF sat_version < Min(jr.fixVersions) THEN "True"
    ELSE "Version0"

\* a variant of is_open_jr that does not return a stored is_open
IsOpenRecomputed(h, a) ==
    LET f == follow_duplicates(h, a)
    IN  IF f = 0 THEN "RecursionError" ELSE IsOpenComputed(h[f])

\* is_open_jr(issue, data) with data the record at address a
\* (try_from_cache returns a non-empty data as it is)
is_open_jr(h, a) ==
    IF h[a].is_open # NoneValue THEN h[a].is_open
    ELSE LET f == follow_duplicates(h, a)
         IN  IF f = 0 THEN "RecursionError" ELSE IsOpenComputed(h[f])

\* should_deselect_jr line 67, on the duplicate-followed record jr
ShouldDeselectComputed(jr) ==
    IF jr.status \in CLOSED_STATUSES
       /\ StrContains(jr.resolution, WONTFIX_RESOLUTIONS)
    THEN "True" ELSE "False"

\* should_deselect_jr(issue, data) with data the record at address a
should_deselect_jr(h, a) ==
    IF h[a].is_deselected # NoneValue THEN h[a].is_deselected
    ELSE LET f == follow_duplicates(h, a)
         IN  IF f = 0 THEN "RecursionError" ELSE ShouldDeselectComputed(h[f])

\* robottelo.utils.issue_handlers.is_open and should_deselect: the handler of
\* the "JR" prefix is called with the issue and the data given
is_open(h, a) == is_open_jr(h, a)

should_deselect(h, a) == should_deselect_jr(h, a)

IsException(v) ==
    v \in {"RecursionError", "MinError", "TypeError", "RetryError", "IndexError"}

----------------------------------------------------------------------------
(* State handling helpers *)

inputs == <<sat_version, tracker, api_key, bz_filters, jr_filters,
            use_bz_cache, use_jr_cache>>

\* the cache files and what lines 204-230 loaded from them
cache_state == <<bz_file, jr_file, cached_data, cache_is_none, loaded>>

\* the state of decorators.py, which the issue handler plugin never touches
decorators_state == <<redmine, redmine_source, redmine_call>>

\* the state of repository_mixins.py
repository_state == <<settings_cdn, collection, repo_call>>

\* the state of the modules the issue handler plugin never touches
others == <<decorators_state, repository_state>>

\* the state of the issue handler plugin and of jira.py
plugin_state ==
    <<sat_version, tracker, api_key, use_bz_cache, use_jr_cache, bz_file,
      jr_file, cached_data, cache_is_none, loaded, heap, memo_get_data,
      memo_get_single, collected_data, items, bz_filters, jr_filters,
      jr_data, idx, cur, call, attempt, requests, selected, deselected,
      pc, error>>

\* decorators.py lines 49-52: closed_statuses is None (set FALSE) and no
\* issue is known (status 0)
RedmineUnset ==
    [closed_statuses |-> [set |-> FALSE, ids |-> <<>>],
     issues |-> [b \in Bugs |-> 0]]

NoResponse == [kind |-> "none", list |-> <<>>]

NoRedmineCall ==
    [op |-> "none", bug |-> 0, ret |-> "none", fetched |-> FALSE, was_set |-> FALSE]

\* decorators.py as imported
DecoratorsImported ==
    /\ redmine = RedmineUnset
    /\ redmine_source = NoResponse
    /\ redmine_call = NoRedmineCall

\* RepositoryCollection lines 503-522, built with no repository: no item,
\* no os_repo (0), nothing created
NewCollection(distro) ==
    [distro |-> distro, items |-> <<>>, os_repo |-> 0, repos_info |-> <<>>,
     custom_product_info |-> NoneValue, setup_content_data |-> NoneValue,
     org |-> NoneValue]

\* arg is the repository create() was called on, or the number of items
\* add_item or add_items was given
NoRepoCall ==
    [op |-> "none", arg |-> <<>>, raised |-> "none", ret |-> NoneValue,
     calls |-> <<>>]

\* repository_mixins.py with no collection in use
RepositoriesIdle ==
    /\ settings_cdn = FALSE
    /\ collection = NewCollection(NoneValue)
    /\ repo_call = NoRepoCall

\* the other modules as imported, in a run of the issue handler plugin
OthersIdle == DecoratorsImported /\ RepositoriesIdle

\* every variable a step of the run can change, except call, attempt, requests
Flow(h, md, ms, cd, its, jd, i, c, sel, des, p, e) ==
    /\ UNCHANGED others
    /\ heap' = h
    /\ memo_get_data' = md
    /\ memo_get_single' = ms
    /\ collected_data' = cd
    /\ items' = its
    /\ jr_data' = jd
    /\ idx' = i
    /\ cur' = c
    /\ selected' = sel
    /\ deselected' = des
    /\ pc' = p
    /\ error' = e

\* the run ends with exception e
Raise(e) ==
    Flow(heap, memo_get_data, memo_get_single, collected_data, items, jr_data,
         idx, cur, selected, deselected, "error", e)

\* collected_data = defaultdict(lambda: {"data": {}, "used_in": []})
\* kept as the keys in insertion order and the entry of each key; meta tells
\* that the "_meta" key of line 360 is there
NewEntry == [data |-> 0, used_in |-> 0, is_dupe |-> FALSE]

Keys(cd) == DOMAIN cd.ent

\* collected_data[n]: reading a missing key creates the entry
Touch(cd, n) ==
    IF n \in Keys(cd) THEN cd
    ELSE [cd EXCEPT !.order = Append(cd.order, n), !.ent = cd.ent @@ (n :> NewEntry)]

SetData(cd, n, a) ==
    LET t == Touch(cd, n)
    IN  [t EXCEPT !.ent[n].data = a]

SeqToSet(q) == {q[i] : i \in DOMAIN q}

\* the records the tracker answers for the set of numbers nums
FetchRecords(nums) ==
    LET want == SelectSeq(NumberOrder, LAMBDA n : n \in nums)
    IN  [i \in DOMAIN want |-> tracker[want[i]]]

\* the addresses a sequence of k records appended to heap h gets
NewAddrs(h, k) == [i \in 1..k |-> Len(h) + i]

----------------------------------------------------------------------------
(* get_data_jr and get_single_jr up to the remote request *)

\* a variant of GetDataLocal that does not look at the injected cache
GetDataLocalCacheIgnored(nums, cache, h) ==
    LET key == SeqToSet(nums)
    IN  IF memo_get_data[key] # <<>>
        THEN [remote |-> FALSE, list |-> memo_get_data[key], heap |-> h]
        ELSE IF ~api_key
        THEN [remote |-> FALSE,
              list |-> NewAddrs(h, Len(nums)),
              heap |-> h \o [i \in DOMAIN nums |-> get_default_jr(nums[i])]]
        ELSE [remote |-> TRUE, list |-> <<>>, heap |-> h]

\* get_data_jr(nums, cache), lines 151-172: what it returns without the
\* tracker, or remote = TRUE when the request has to be sent
GetDataLocal(nums, cache, h) ==
    LET key == SeqToSet(nums)
    IN  IF memo_get_data[key] # <<>>
        THEN [remote |-> FALSE, list |-> memo_get_data[key], heap |-> h]
        ELSE IF cache # <<>>
        THEN [remote |-> FALSE,
              list |-> [i \in DOMAIN cache |-> cache[i][2]],
              heap |-> h]
        ELSE IF ~api_key
        THEN [remote |-> FALSE,
              list |-> NewAddrs(h, Len(nums)),
              heap |-> h \o [i \in DOMAIN nums |-> get_default_jr(nums[i])]]
        ELSE [remote |-> TRUE, list |-> <<>>, heap |-> h]

\* get_single_jr(n, cache), lines 217-226, up to the remote request
GetSingleLocal(n, cache, h) ==
    IF memo_get_single[n] # 0
    THEN [remote |-> FALSE, d |-> memo_get_single[n], heap |-> h,
          ms |-> memo_get_single]
    ELSE IF \E i \in DOMAIN cache : cache[i][1] = n
    THEN LET i == CHOOSE j \in DOMAIN cache : cache[j][1] = n
         IN  [remote |-> FALSE, d |-> cache[i][2], heap |-> h,
              ms |-> [memo_get_single EXCEPT ![n] = cache[i][2]]]
    ELSE LET r == GetDataLocal(<<n>>, cache, h)
         IN  IF r.remote
             THEN [remote |-> TRUE, d |-> 0, heap |-> h, ms |-> memo_get_single]
             ELSE [remote |-> FALSE, d |-> r.list[1], heap |-> r.heap,
                   ms |-> [memo_get_single EXCEPT ![n] = r.list[1]]]

----------------------------------------------------------------------------
(* The cache files: generate_issue_collection lines 204-230 and 358-375 *)

\* a cache file: whether it exists, whether it holds the "_meta" entry, and
\* its entries <<number, data>> in order. A data dict is written with its
\* dupe_data nested in it: data is the chain <<dict, its dupe_data, ...>>.
\* The used_in lists are written too; nothing reads them back.
NoFile == [exists |-> FALSE, meta |-> FALSE, ent |-> <<>>]

\* VersionEncoder: a Version object is written as its string, any other
\* value as json writes it
VersionEncoder(v) == IF v = "Version0" THEN "0" ELSE v

\* json.dump of the dict at address a of heap h (0: the empty dict)
RECURSIVE DumpFrom(_, _, _)
DumpFrom(h, a, fuel) ==
    IF a = 0 \/ fuel = 0 THEN <<>>
    ELSE <<[h[a] EXCEPT !.is_open = VersionEncoder(@), !.dupe_data = 0]>>
         \o DumpFrom(h, h[a].dupe_data, fuel - 1)

\* json.dump(collected_data): one entry per key of the index
DumpIndex(cd, h) ==
    [i \in DOMAIN cd.order |->
        <<cd.order[i], DumpFrom(h, cd.ent[cd.order[i]].data, Len(h))>>]

\* json.load of a data chain onto heap h: every dict is a new object
LoadChain(c, h) ==
    h \o [j \in DOMAIN c |->
            [c[j] EXCEPT !.dupe_data = IF j < Len(c) THEN Len(h) + j + 1 ELSE 0]]

\* lines 211-213 and 223-225: the entries of a file from position i on,
\* loaded on heap h after the entries acc
RECURSIVE LoadFile(_, _, _, _)
LoadFile(ent, i, h, acc) ==
    IF i > Len(ent) THEN [heap |-> h, cache |-> acc]
    ELSE LoadFile(ent, i + 1, LoadChain(ent[i][2], h),
                  Append(acc, <<ent[i][1], IF ent[i][2] = <<>> THEN 0 ELSE Len(h) + 1>>))

\* lines 204-230: the BZ file is opened when either flag is set, the JR file
\* when --jr-cache is set, and the JR file wins; a missing file only warns
LoadCache ==
    /\ pc = "load"
    /\ LET f == IF use_jr_cache /\ jr_file.exists THEN jr_file
                ELSE IF (use_bz_cache \/ use_jr_cache) /\ bz_file.exists THEN bz_file
                ELSE NoFile
           l == LoadFile(f.ent, 1, <<>>, <<>>)
       IN  /\ cached_data' = l.cache
           /\ cache_is_none' = ~f.exists
           /\ loaded' = Len(l.heap)
           /\ Flow(l.heap, memo_get_data, memo_get_single, collected_data, items,
                   jr_data, idx, cur, selected, deselected, "build", error)
    /\ UNCHANGED <<inputs, bz_file, jr_file, call, attempt, requests>>

----------------------------------------------------------------------------
(* generate_issue_collection: building the index from the items *)

\* lines 237-243 and 263-264: the items the loop goes on with
Processed(it) == ~it.unit /\ it.component

\* a variant of Malformed that accepts a bare skip or deselect marker
MalformedSkipIfOpenOnly(it) == it.marker = "skip_if_open" /\ it.issue = "none"

\* a marker with no reason keyword and no positional argument: args[0] of
\* lines 100 and 270 raises IndexError
Malformed(it) == it.marker # "none" /\ it.issue = "none"

\* the item after lines 237-311
MarkItem(it) ==
    IF it.unit \/ ~it.component THEN it
    ELSE LET own == IF it.marker # "none" THEN {it.issue} ELSE {}
         IN  [it EXCEPT !.bz_marks = it.docbz \cup own,
                        !.jr_marks = it.docjr \cup own]

\* a variant of ScanItems that records the skip_if_open markers only
RECURSIVE ScanItemsSkipIfOpenOnly(_, _, _)
ScanItemsSkipIfOpenOnly(cd, its, i) ==
    IF i > Len(its) THEN cd
    ELSE LET it == its[i]
             cd2 == IF it.unit \/ ~it.component \/ it.marker # "skip_if_open" THEN cd
                    ELSE LET t == Touch(cd, it.issue)
                         IN  [t EXCEPT !.ent[it.issue].used_in = @ + 1]
         IN  ScanItemsSkipIfOpenOnly(cd2, its, i + 1)

\* the index after the items from position i on have been scanned
RECURSIVE ScanItems(_, _, _)
ScanItems(cd, its, i) ==
    IF i > Len(its) THEN cd
    ELSE LET it == its[i]
             cd2 == IF it.unit \/ ~it.component \/ it.marker = "none" THEN cd
                    ELSE LET t == Touch(cd, it.issue)
                         IN  [t EXCEPT !.ent[it.issue].used_in = @ + 1]
         IN  ScanItems(cd2, its, i + 1)

BuildCollection ==
    /\ pc = "build"
    /\ IF \E i \in DOMAIN items : Processed(items[i]) /\ Malformed(items[i])
       THEN Raise("IndexError")
       ELSE Flow(heap, memo_get_data, memo_get_single,
                 ScanItems(collected_data, items, 1),
                 [i \in DOMAIN items |-> MarkItem(items[i])],
                 jr_data, idx, cur, selected, deselected, "get_data", error)
    /\ UNCHANGED <<inputs, cache_state, call, attempt, requests>>

----------------------------------------------------------------------------
(* collect_data_jr *)

\* the loop of lines 108-114 starts on the list get_data_jr returned
EnterLoop(list, h, md) ==
    IF list = <<>>
    THEN Flow(h, md, memo_get_single, collected_data, items, list, 1, 0,
              selected, deselected, "deselect", error)
    ELSE Flow(h, md, memo_get_single, collected_data, items, list, 1, list[1],
              selected, deselected, "dupes", error)

\* lines 101-107: the batch request for every JR key of the index
GetDataBatch ==
    /\ pc = "get_data"
    /\ IF collected_data.order = <<>>
       THEN /\ EnterLoop(<<>>, heap, memo_get_data)
            /\ UNCHANGED <<call, attempt>>
       ELSE LET r == GetDataLocal(collected_data.order, cached_data, heap)
            IN  IF r.remote
                THEN /\ call' = [nums |-> SeqToSet(collected_data.order),
                                 n |-> "none", ret |-> "batch"]
                     /\ attempt' = 0
                     /\ Flow(heap, memo_get_data, memo_get_single, collected_data,
                             items, jr_data, idx, cur, selected, deselected,
                             "remote", error)
                ELSE /\ EnterLoop(r.list, r.heap, memo_get_data)
                     /\ UNCHANGED <<call, attempt>>
    /\ UNCHANGED <<inputs, cache_state, requests>>

\* collect_dupes lines 122-128, once get_single_jr has returned record d
ContDupes(d, h, md, ms) ==
    LET n == h[cur].dupe_of
        h2 == [h EXCEPT ![cur].dupe_data = d]
    IN  IF n \notin Keys(collected_data)
        THEN Flow(h2, md, ms,
                  [collected_data EXCEPT
                      !.order = Append(collected_data.order, n),
                      !.ent = collected_data.ent @@
                              (n :> [data |-> d, used_in |-> 0, is_dupe |-> TRUE])],
                  items, jr_data, idx, d, selected, deselected, "dupes", error)
        ELSE Flow(h2, md, ms, collected_data, items, jr_data, idx, cur,
                  selected, deselected, "stamp", error)

\* collect_dupes on the record cur, up to the remote request of get_single_jr
CollectDupes ==
    /\ pc = "dupes"
    /\ IF heap[cur].resolution # "Duplicate"
       THEN /\ Flow(heap, memo_get_data, memo_get_single, collected_data, items,
                    jr_data, idx, cur, selected, deselected, "stamp", error)
            /\ UNCHANGED <<call, attempt>>
       ELSE LET n == heap[cur].dupe_of
                s == GetSingleLocal(n, cached_data, heap)
            IN  IF s.remote
                THEN /\ call' = [nums |-> {n}, n |-> n, ret |-> "dupes"]
                     /\ attempt' = 0
                     /\ Flow(heap, memo_get_data, memo_get_single, collected_data,
                             items, jr_data, idx, cur, selected, deselected,
                             "remote", error)
                ELSE /\ ContDupes(s.d, s.heap, memo_get_data, s.ms)
                     /\ UNCHANGED <<call, attempt>>
    /\ UNCHANGED <<inputs, cache_state, requests>>

\* lines 112-114 for the record jr_data[idx], then the next record
StampIsOpen ==
    /\ pc = "stamp"
    /\ LET a == jr_data[idx]
           v == is_open_jr(heap, a)
       IN  IF IsException(v) THEN Raise(v)
           ELSE LET h == [heap EXCEPT ![a].is_open = v]
                    cd == SetData(collected_data, heap[a].id, a)
                IN  IF idx < Len(jr_data)
                    THEN Flow(h, memo_get_data, memo_get_single, cd, items,
                              jr_data, idx + 1, jr_data[idx + 1],
                              selected, deselected, "dupes", error)
                    ELSE Flow(h, memo_get_data, memo_get_single, cd, items,
                              jr_data, 1, 0, selected, deselected, "deselect", error)
    /\ UNCHANGED <<inputs, cache_state, call, attempt, requests>>

----------------------------------------------------------------------------
(* generate_issue_collection lines 351-356: the deselect markers *)

\* a data dict that holds nothing but the is_deselected key line 355 gave it
OnlyDeselected ==
    [id |-> NoneValue, status |-> NoneValue, resolution |-> NoneValue,
     fixVersions |-> {}, dupe_of |-> NoneValue, is_open |-> NoneValue,
     is_deselected |-> "True", dupe_data |-> 0]

\* the next item of the deselect loop, or lines 358-375 when it is over
NextDeselect(h, md, ms, cd, its) ==
    IF idx < Len(items)
    THEN Flow(h, md, ms, cd, its, jr_data, idx + 1, cur, selected, deselected,
              "deselect", error)
    ELSE Flow(h, md, ms, cd, its, jr_data, 1, cur, selected, deselected,
              "write", error)

\* a variant of ContDeselect that stores is_deselected and adds no marker
ContDeselectUnmarked(d, h, md, ms) ==
    LET issue == items[idx].issue
        data == collected_data.ent[issue].data
        v == should_deselect(h, d)
    IN  IF IsException(v)
        THEN Flow(h, md, ms, collected_data, items, jr_data, idx, cur,
                  selected, deselected, "error", v)
        ELSE IF v # "True" THEN NextDeselect(h, md, ms, collected_data, items)
        ELSE IF data # 0
        THEN NextDeselect([h EXCEPT ![data].is_deselected = "True"], md, ms,
                          collected_data, items)
        ELSE NextDeselect(Append(h, OnlyDeselected), md, ms,
                          [collected_data EXCEPT !.ent[issue].data = Len(h) + 1],
                          items)

\* lines 354-356 for items[idx], should_deselect_jr reading the record d
ContDeselect(d, h, md, ms) ==
    LET issue == items[idx].issue
        data == collected_data.ent[issue].data
        v == should_deselect(h, d)
        its == [items EXCEPT ![idx].deselect = TRUE]
    IN  IF IsException(v)
        THEN Flow(h, md, ms, collected_data, items, jr_data, idx, cur,
                  selected, deselected, "error", v)
        ELSE IF v # "True" THEN NextDeselect(h, md, ms, collected_data, items)
        ELSE IF data # 0
        THEN NextDeselect([h EXCEPT ![data].is_deselected = "True"], md, ms,
                          collected_data, its)
        ELSE NextDeselect(Append(h, OnlyDeselected), md, ms,
                          [collected_data EXCEPT !.ent[issue].data = Len(h) + 1],
                          its)

\* an item takes part when lines 268-285 recorded an issue for it
HasIssue(it) == ~it.unit /\ it.component /\ it.marker # "none"

DeselectItem ==
    /\ pc = "deselect"
    /\ IF ~HasIssue(items[idx])
       THEN /\ NextDeselect(heap, memo_get_data, memo_get_single, collected_data, items)
            /\ UNCHANGED <<call, attempt>>
       ELSE LET issue == items[idx].issue
                data == collected_data.ent[issue].data
            IN  IF data # 0
                THEN /\ ContDeselect(data, heap, memo_get_data, memo_get_single)
                     /\ UNCHANGED <<call, attempt>>
                ELSE \* try_from_cache lines 86-91: empty data, get_single_jr(number)
                     LET s == GetSingleLocal(issue, <<>>, heap)
                     IN  IF s.remote
                         THEN /\ call' = [nums |-> {issue}, n |-> issue, ret |-> "deselect"]
                              /\ attempt' = 0
                              /\ Flow(heap, memo_get_data, memo_get_single,
                                      collected_data, items, jr_data, idx, cur,
                                      selected, deselected, "remote", error)
                         ELSE /\ ContDeselect(s.d, s.heap, memo_get_data, s.ms)
                              /\ UNCHANGED <<call, attempt>>
    /\ UNCHANGED <<inputs, cache_state, requests>>

\* a variant of WriteCache that writes whether a file was loaded or not
WriteCacheAlways ==
    /\ pc = "write"
    /\ IF use_bz_cache \/ use_jr_cache
       THEN LET cd == [collected_data EXCEPT !.meta = TRUE]
                f == [exists |-> TRUE, meta |-> TRUE, ent |-> DumpIndex(cd, heap)]
            IN  /\ bz_file' = IF use_bz_cache THEN f ELSE bz_file
                /\ jr_file' = IF use_jr_cache THEN f ELSE jr_file
                /\ Flow(heap, memo_get_data, memo_get_single, cd, items,
                        jr_data, 1, cur, selected, deselected, "modify", error)
       ELSE /\ UNCHANGED <<bz_file, jr_file>>
            /\ Flow(heap, memo_get_data, memo_get_single, collected_data, items,
                    jr_data, 1, cur, selected, deselected, "modify", error)
    /\ UNCHANGED <<inputs, cached_data, cache_is_none, loaded, call, attempt, requests>>

\* lines 358-375: when no file was loaded and a flag is set, the index gets
\* its "_meta" key and is written to the file of every flag that is set
WriteCache ==
    /\ pc = "write"
    /\ IF cache_is_none /\ (use_bz_cache \/ use_jr_cache)
       THEN LET cd == [collected_data EXCEPT !.meta = TRUE]
                f == [exists |-> TRUE, meta |-> TRUE, ent |-> DumpIndex(cd, heap)]
            IN  /\ bz_file' = IF use_bz_cache THEN f ELSE bz_file
                /\ jr_file' = IF use_jr_cache THEN f ELSE jr_file
                /\ Flow(heap, memo_get_data, memo_get_single, cd, items,
                        jr_data, 1, cur, selected, deselected, "modify", error)
       ELSE /\ UNCHANGED <<bz_file, jr_file>>
            /\ Flow(heap, memo_get_data, memo_get_single, collected_data, items,
                    jr_data, 1, cur, selected, deselected, "modify", error)
    /\ UNCHANGED <<inputs, cached_data, cache_is_none, loaded, call, attempt, requests>>

----------------------------------------------------------------------------
(* pytest_collection_modifyitems lines 93-122 *)

\* a variant of FilterItem that forgets the items it does not select
FilterItemDropsDeselected(h, md, ms, cd, its) ==
    LET it == its[idx]
        p == IF idx < Len(its) THEN "modify" ELSE "done"
        i == IF idx < Len(its) THEN idx + 1 ELSE idx
        Select == Flow(h, md, ms, cd, its, jr_data, i, cur,
                       Append(selected, idx), deselected, p, error)
        Deselect == Flow(h, md, ms, cd, its, jr_data, i, cur,
                         selected, deselected, p, error)
        Fail == Flow(h, md, ms, cd, its, jr_data, idx, cur,
                     selected, deselected, "error", "TypeError")
    IN  IF bz_filters.given \/ jr_filters.given
        THEN IF ~bz_filters.given THEN Fail
             ELSE IF bz_filters.vals \cap it.bz_marks # {} THEN Select
             ELSE IF ~jr_filters.given THEN Fail
             ELSE IF jr_filters.vals \cap it.jr_marks # {} THEN Select
             ELSE Deselect
        ELSE Select

\* lines 104-119 for its[idx], then the next item or the end (lines 121-122)
FilterItem(h, md, ms, cd, its) ==
    LET it == its[idx]
        p == IF idx < Len(its) THEN "modify" ELSE "done"
        i == IF idx < Len(its) THEN idx + 1 ELSE idx
        Select == Flow(h, md, ms, cd, its, jr_data, i, cur,
                       Append(selected, idx), deselected, p, error)
        Deselect == Flow(h, md, ms, cd, its, jr_data, i, cur,
                         selected, Append(deselected, idx), p, error)
        Fail == Flow(h, md, ms, cd, its, jr_data, idx, cur,
                     selected, deselected, "error", "TypeError")
    IN  IF bz_filters.given \/ jr_filters.given
        THEN IF ~bz_filters.given THEN Fail              \* set(None)
             ELSE IF bz_filters.vals \cap it.bz_marks # {} THEN Select
             ELSE IF ~jr_filters.given THEN Fail         \* set(None)
             ELSE IF jr_filters.vals \cap it.jr_marks # {} THEN Select
             ELSE Deselect
        ELSE Select

\* lines 97-101 for items[idx], is_open_jr reading the record d
ContSkipIf(d, h, md, ms, cd) ==
    LET v == is_open(h, d)
    IN  IF IsException(v)
        THEN Flow(h, md, ms, cd, items, jr_data, idx, cur,
                  selected, deselected, "error", v)
        ELSE FilterItem(h, md, ms, cd, [items EXCEPT ![idx].skipif = v])

ModifyItem ==
    /\ pc = "modify"
    /\ IF items[idx].marker # "skip_if_open"
       THEN /\ FilterItem(heap, memo_get_data, memo_get_single, collected_data, items)
            /\ UNCHANGED <<call, attempt>>
       ELSE IF Malformed(items[idx])
       THEN /\ Raise("IndexError")
            /\ UNCHANGED <<call, attempt>>
       ELSE LET issue == items[idx].issue
                cd == Touch(collected_data, issue)
                data == cd.ent[issue].data
            IN  IF data # 0
                THEN /\ ContSkipIf(data, heap, memo_get_data, memo_get_single, cd)
                     /\ UNCHANGED <<call, attempt>>
                ELSE \* try_from_cache lines 86-91: empty data, get_single_jr(number)
                     LET s == GetSingleLocal(issue, <<>>, heap)
                     IN  IF s.remote
                         THEN /\ call' = [nums |-> {issue}, n |-> issue, ret |-> "skipif"]
                              /\ attempt' = 0
                              /\ Flow(heap, memo_get_data, memo_get_single,
                                      cd, items, jr_data, idx, cur,
                                      selected, deselected, "remote", error)
                         ELSE /\ ContSkipIf(s.d, s.heap, memo_get_data, s.ms, cd)
                              /\ UNCHANGED <<call, attempt>>
    /\ UNCHANGED <<inputs, cache_state, requests>>

----------------------------------------------------------------------------
(* get_data_jr lines 137-141 and 201-212: the remote request and its retries *)

\* a variant of RemoteFails that gives up one attempt later
RemoteFailsOneMore ==
    /\ pc = "remote"
    /\ attempt' = attempt + 1
    /\ requests' = requests + 1
    /\ IF attempt + 1 >= StopAfterAttempt + 1
       THEN Raise("RetryError")
       ELSE UNCHANGED <<heap, memo_get_data, memo_get_single, collected_data,
                        items, jr_data, idx, cur, selected, deselected, pc, error,
                        others>>
    /\ UNCHANGED <<inputs, cache_state, call>>

\* an attempt raises: tenacity tries again, and raises RetryError once
\* stop_after_attempt(4) is reached
RemoteFails ==
    /\ pc = "remote"
    /\ attempt' = attempt + 1
    /\ requests' = requests + 1
    /\ IF attempt + 1 >= StopAfterAttempt
       THEN Raise("RetryError")
       ELSE UNCHANGED <<heap, memo_get_data, memo_get_single, collected_data,
                        items, jr_data, idx, cur, selected, deselected, pc, error,
                        others>>
    /\ UNCHANGED <<inputs, cache_state, call>>

\* an attempt succeeds: the response is memoised and returned to the caller
RemoteSucceeds ==
    /\ pc = "remote"
    /\ attempt' = attempt + 1
    /\ requests' = requests + 1
    /\ LET recs == FetchRecords(call.nums)
           h == heap \o recs
           list == NewAddrs(heap, Len(recs))
           md == [memo_get_data EXCEPT ![call.nums] = list]
           ms == IF call.n = "none" THEN memo_get_single
                 ELSE [memo_get_single EXCEPT ![call.n] = list[1]]
       IN  CASE call.ret = "batch" -> EnterLoop(list, h, md)
             [] call.ret = "dupes" -> ContDupes(list[1], h, md, ms)
             [] call.ret = "deselect" -> ContDeselect(list[1], h, md, ms)
             [] call.ret = "skipif" -> ContSkipIf(list[1], h, md, ms, collected_data)
    /\ UNCHANGED <<inputs, cache_state, call>>

----------------------------------------------------------------------------
(* Initial states: a fresh pytest process before collection *)

NoFilter == [given |-> FALSE, vals |-> {}]

Filter(S) == [given |-> TRUE, vals |-> S]

\* a test item: its path class, its component marker, its issue marker
\* (name and "JR:<issue>" argument), the :BZ: and :JR: docstring tokens
Item(marker, issue, docbz) ==
    [unit |-> FALSE, component |-> TRUE, marker |-> marker, issue |-> issue,
     docbz |-> docbz, docjr |-> {}, bz_marks |-> {}, jr_marks |-> {},
     skipif |-> "unset", deselect |-> FALSE]

KindsFull(n) ==
    {RawRecord(n, "New", "", {}, NoneValue),
     RawRecord(n, "New", "Obsolete", {10}, NoneValue),
     RawRecord(n, "In Progress", "Done", {10}, NoneValue),
     RawRecord(n, "Closed", "Done", {10}, NoneValue),
     RawRecord(n, "Release Pending", "Done", {10, 11}, NoneValue),
     RawRecord(n, "Closed", "Obsolete", {10}, NoneValue),
     RawRecord(n, "Release Pending", "Obsolete", {}, NoneValue),
     RawRecord(n, "Closed", "", {10}, NoneValue),
     RawRecord(n, "Closed", "Obs", {}, NoneValue),
     RawRecord(n, "Closed", "Done", {}, NoneValue)}
    \cup {RawRecord(n, "Closed", "Duplicate", {10}, m) : m \in Numbers \ {n}}
    \cup {RawRecord(n, "New", "Duplicate", {}, m) : m \in Numbers \ {n}}

KindsFew(n) ==
    {RawRecord(n, "New", "", {}, NoneValue),
     RawRecord(n, "Closed", "Done", {10}, NoneValue),
     RawRecord(n, "Closed", "Obsolete", {}, NoneValue)}
    \cup {RawRecord(n, "Closed", "Duplicate", {10}, m) : m \in Numbers \ {n}}

Tracker(a, b, c) == [n \in Numbers |-> CASE n = "A" -> a [] n = "B" -> b [] n = "C" -> c]

\* the issues the skip_if_open markers of the collected tests name, in order
RefLists == {<<"A">>, <<"A", "B">>, <<"B", "A">>, <<"A", "C">>, <<"A", "B", "C">>}

SkipItems(refs) == [i \in DOMAIN refs |-> Item("skip_if_open", refs[i], {})]

ItemChoices ==
    {Item("none", "none", {}), Item("none", "none", {"1"}), Item("none", "none", {"2"}),
     Item("skip_if_open", "A", {}), Item("skip_if_open", "A", {"1"})}

FilterChoices(S) == {NoFilter} \cup {Filter(x) : x \in S}

\* a cache file holding the tracker's records of the numbers in order,
\* with is_open already stored or not
CacheLists == {<<"A">>, <<"B">>, <<"A", "B">>, <<"B", "A">>}

CacheHeap(order, trk, stamped) ==
    [i \in DOMAIN order |->
        IF stamped THEN [trk[order[i]] EXCEPT !.is_open = "True"]
        ELSE trk[order[i]]]

CacheFile(order, trk, stamped) ==
    [exists |-> TRUE, meta |-> FALSE,
     ent |-> [i \in DOMAIN order |-> <<order[i], <<CacheHeap(order, trk, stamped)[i]>>>>]]

InitRun ==
    /\ memo_get_data = [k \in SUBSET Numbers |-> <<>>]
    /\ memo_get_single = [n \in Numbers |-> 0]
    /\ collected_data = [order |-> <<>>, ent |-> <<>>, meta |-> FALSE]
    /\ jr_data = <<>>
    /\ idx = 1
    /\ cur = 0
    /\ call = [nums |-> {}, n |-> "none", ret |-> "none"]
    /\ attempt = 0
    /\ requests = 0
    /\ selected = <<>>
    /\ deselected = <<>>
    /\ pc = "load"
    /\ error = ""
    /\ cached_data = <<>>
    /\ cache_is_none = TRUE
    /\ loaded = 0
    /\ heap = <<>>

\* resolver runs: any tracker content, no cache, no filter
InitResolver ==
    /\ sat_version \in Versions
    /\ api_key \in BOOLEAN
    /\ \E a \in KindsFull("A"), b \in KindsFew("B"), c \in KindsFew("C") :
          tracker = Tracker(a, b, c)
    /\ use_bz_cache = FALSE /\ use_jr_cache = FALSE
    /\ bz_file = NoFile /\ jr_file = NoFile
    /\ \E refs \in RefLists : items = SkipItems(refs)
    /\ bz_filters = NoFilter
    /\ jr_filters = NoFilter

\* filter runs: --BZ and --JR given or not, items with and without marks
InitFilter ==
    /\ sat_version = 11
    /\ api_key \in BOOLEAN
    /\ \E a \in {RawRecord("A", "New", "", {}, NoneValue),
                  RawRecord("A", "Closed", "Obsolete", {}, NoneValue)} :
          tracker = Tracker(a, RawRecord("B", "New", "", {}, NoneValue),
                            RawRecord("C", "New", "", {}, NoneValue))
    /\ use_bz_cache = FALSE /\ use_jr_cache = FALSE
    /\ bz_file = NoFile /\ jr_file = NoFile
    /\ items \in [1..FilterItems -> ItemChoices]
    /\ bz_filters \in FilterChoices({{"1"}, {"1", "2"}})
    /\ jr_filters \in FilterChoices({{"A"}, {"B"}})

\* cache runs: --jr-cache with a cache file in place
InitCache ==
    /\ sat_version = 11
    /\ api_key \in BOOLEAN
    /\ \E a \in KindsFew("A"), b \in KindsFew("B") :
          tracker = Tracker(a, b, RawRecord("C", "New", "", {}, NoneValue))
    /\ use_bz_cache = FALSE /\ use_jr_cache = TRUE
    /\ bz_file = NoFile
    /\ \E order \in CacheLists, stamped \in BOOLEAN :
          jr_file = CacheFile(order, tracker, stamped)
    /\ \E refs \in {<<"A">>, <<"A", "B">>} : items = SkipItems(refs)
    /\ bz_filters = NoFilter
    /\ jr_filters = NoFilter

\* an item under tests/robottelo/ or not, with a component marker or not,
\* with one of the valid markers or none, the marker naming JR:A or nothing
PathClasses ==
    {[unit |-> TRUE, component |-> TRUE], [unit |-> FALSE, component |-> FALSE],
     [unit |-> FALSE, component |-> TRUE]}

MarkerItems ==
    {[Item(m, n, {}) EXCEPT !.unit = c.unit, !.component = c.component] :
        c \in PathClasses,
        m \in {"skip_if_open", "skip", "deselect"}, n \in {"A", "none"}}
    \cup {[Item("none", "none", d) EXCEPT !.unit = c.unit, !.component = c.component] :
              c \in PathClasses, d \in {{}, {"1"}}}

\* marker runs: items of every path class and marker shape
InitMarkers ==
    /\ sat_version = 11
    /\ api_key \in BOOLEAN
    /\ \E a \in {RawRecord("A", "New", "", {}, NoneValue),
                  RawRecord("A", "Closed", "Obsolete", {}, NoneValue)} :
          tracker = Tracker(a, RawRecord("B", "New", "", {}, NoneValue),
                            RawRecord("C", "New", "", {}, NoneValue))
    /\ use_bz_cache = FALSE /\ use_jr_cache = FALSE
    /\ bz_file = NoFile /\ jr_file = NoFile
    /\ items \in [1..MarkerRunItems -> MarkerItems]
    /\ bz_filters = NoFilter
    /\ jr_filters = NoFilter

Init ==
    /\ InitRun
    /\ (InitResolver \/ InitFilter \/ InitCache \/ InitMarkers)
    /\ OthersIdle

Next ==
    \/ LoadCache
    \/ BuildCollection
    \/ GetDataBatch
    \/ CollectDupes
    \/ StampIsOpen
    \/ DeselectItem
    \/ WriteCache
    \/ ModifyItem
    \/ RemoteFails
    \/ RemoteSucceeds

Spec == Init /\ [][Next]_vars

----------------------------------------------------------------------------
(* Successive runs: pytest invoked again on the same tests, with the cache
   files the earlier runs left *)

\* an item as the test module defines it, before any plugin marked it
Unmarked(it) ==
    [it EXCEPT !.bz_marks = {}, !.jr_marks = {}, !.skipif = "unset",
               !.deselect = FALSE]

\* a new pytest process: nothing is kept but the files, and the cache flags
\* are those of the new command line
NextRun ==
    /\ pc \in {"done", "error"}
    /\ use_bz_cache' \in BOOLEAN
    /\ use_jr_cache' \in BOOLEAN
    /\ cached_data' = <<>>
    /\ cache_is_none' = TRUE
    /\ loaded' = 0
    /\ call' = [nums |-> {}, n |-> "none", ret |-> "none"]
    /\ attempt' = 0
    /\ requests' = 0
    /\ Flow(<<>>, [k \in SUBSET Numbers |-> <<>>], [n \in Numbers |-> 0],
            [order |-> <<>>, ent |-> <<>>, meta |-> FALSE],
            [i \in DOMAIN items |-> Unmarked(items[i])],
            <<>>, 1, 0, <<>>, <<>>, "load", "")
    /\ UNCHANGED <<sat_version, tracker, api_key, bz_filters, jr_filters,
                   bz_file, jr_file>>

\* first runs: any cache flags, no cache file yet
InitFiles ==
    /\ sat_version = 11
    /\ api_key \in BOOLEAN
    /\ \E a \in KindsFew("A"), b \in KindsFew("B") :
          tracker = Tracker(a, b, RawRecord("C", "New", "", {}, NoneValue))
    /\ use_bz_cache \in BOOLEAN
    /\ use_jr_cache \in BOOLEAN
    /\ bz_file = NoFile /\ jr_file = NoFile
    /\ \E refs \in {<<"A">>, <<"A", "B">>} : items = SkipItems(refs)
    /\ bz_filters = NoFilter
    /\ jr_filters = NoFilter

InitCacheRuns == InitRun /\ InitFiles /\ OthersIdle

NextCache ==
    \/ LoadCache
    \/ BuildCollection
    \/ GetDataBatch
    \/ CollectDupes
    \/ StampIsOpen
    \/ DeselectItem
    \/ WriteCache
    \/ ModifyItem
    \/ RemoteFails
    \/ RemoteSucceeds
    \/ NextRun

SpecCache == InitCacheRuns /\ [][NextCache]_vars

----------------------------------------------------------------------------
(* robottelo/common/decorators.py: the Redmine decorators *)

\* what requests.get(.../issue_statuses.json).json() can give: a status list
\* whose entries have an id or none (0) and an is_closed flag or none; an
\* object without the 'issue_statuses' key; or an exception of requests
StatusEntries ==
    [id : {0} \cup StatusIds, is_closed : {"true", "false", "absent"}]

StatusLists == UNION {[1..n -> StatusEntries] : n \in 0..MaxStatuses}

StatusResponses ==
    {[kind |-> "statuses", list |-> l] : l \in StatusLists}
    \cup {[kind |-> "no_list", list |-> <<>>], [kind |-> "fail", list |-> <<>>]}

\* what requests.get(.../issues/<id>.json) can give: an exception, a status
\* code other than 200, a body without issue.status.id, or an issue
IssueResponses ==
    {[kind |-> k, status |-> 0] : k \in {"fail", "not_found", "no_issue"}}
    \cup {[kind |-> "issue", status |-> s] : s \in StatusIds}

RECURSIVE AppendClosed(_, _, _)
\* lines 62-64: the loop over result['issue_statuses'] from entry i on, acc
\* being closed_statuses so far; issue_status['id'] of a closed entry
\* without id raises KeyError
AppendClosed(list, i, acc) ==
    IF i > Len(list) THEN [ids |-> acc, raised |-> "none"]
    ELSE IF list[i].is_closed # "true" THEN AppendClosed(list, i + 1, acc)
    ELSE IF list[i].id = 0 THEN [ids |-> acc, raised |-> "KeyError"]
    ELSE AppendClosed(list, i + 1, Append(acc, list[i].id))

\* _redmine_closed_issue_statuses, lines 55-66, resp being what the request
\* of line 59 gives if it is sent: the memo after the call, what the call
\* returns ("list": the memo) or raises, whether the request was sent and
\* whether line 60 assigned the memo
redmine_closed_issue_statuses(rm, resp) ==
    IF rm.closed_statuses.set
    THEN [rm |-> rm, ret |-> "list", fetched |-> FALSE, built |-> FALSE]
    ELSE IF resp.kind = "fail"
    THEN [rm |-> rm, ret |-> "ConnectionError", fetched |-> TRUE, built |-> FALSE]
    ELSE IF resp.kind = "no_list"
    THEN [rm |-> [rm EXCEPT !.closed_statuses = [set |-> TRUE, ids |-> <<>>]],
          ret |-> "KeyError", fetched |-> TRUE, built |-> TRUE]
    ELSE LET r == AppendClosed(resp.list, 1, <<>>)
         IN  [rm |-> [rm EXCEPT !.closed_statuses = [set |-> TRUE, ids |-> r.ids]],
              ret |-> IF r.raised = "none" THEN "list" ELSE r.raised,
              fetched |-> TRUE, built |-> TRUE]

\* redminebug, lines 69-97: "skip" is unittest.skip(...), "run" the identity
\* decorator; iresp is what the request of line 73 gives if it is sent
redminebug(rm, bug_id, iresp, sresp) ==
    LET known == rm.issues[bug_id] # 0
        status_id == IF known THEN rm.issues[bug_id] ELSE iresp.status
        rm1 == IF known THEN rm ELSE [rm EXCEPT !.issues[bug_id] = iresp.status]
        c == redmine_closed_issue_statuses(rm1, sresp)
        early(r) == [rm |-> rm, ret |-> r, fetched |-> FALSE, built |-> FALSE]
    IN  IF ~known /\ iresp.kind = "fail" THEN early("ConnectionError")
        ELSE IF ~known /\ iresp.kind \in {"not_found", "no_issue"} THEN early("run")
        ELSE IF c.ret # "list" THEN c
        ELSE [c EXCEPT !.ret = IF status_id \notin SeqToSet(c.rm.closed_statuses.ids)
                                THEN "skip" ELSE "run"]

\* the responses to enumerate for a request: none when it is not sent
Sent(send, responses, none) == IF send THEN responses ELSE {none}

\* a module calls _redmine_closed_issue_statuses()
CallClosedIssueStatuses ==
    \E resp \in Sent(~redmine.closed_statuses.set, StatusResponses, NoResponse) :
        LET r == redmine_closed_issue_statuses(redmine, resp)
        IN  /\ redmine' = r.rm
            /\ redmine_source' = IF r.built THEN resp ELSE redmine_source
            /\ redmine_call' = [op |-> "closed_statuses", bug |-> 0, ret |-> r.ret,
                                fetched |-> r.fetched,
                                was_set |-> redmine.closed_statuses.set]
            /\ UNCHANGED <<plugin_state, repository_state>>

\* a test module is imported and decorates a test with @redminebug(bug_id)
CallRedmineBug ==
    \E bug_id \in Bugs :
    \E iresp \in Sent(redmine.issues[bug_id] = 0, IssueResponses,
                      [kind |-> "none", status |-> 0]),
       sresp \in Sent(~redmine.closed_statuses.set, StatusResponses, NoResponse) :
        LET r == redminebug(redmine, bug_id, iresp, sresp)
        IN  /\ redmine' = r.rm
            /\ redmine_source' = IF r.built THEN sresp ELSE redmine_source
            /\ redmine_call' = [op |-> "redminebug", bug |-> bug_id, ret |-> r.ret,
                                fetched |-> r.fetched,
                                was_set |-> redmine.closed_statuses.set]
            /\ UNCHANGED <<plugin_state, repository_state>>

\* no run of the issue handler plugin: its inputs are fixed and it stays at
\* its first step
PluginIdle ==
    /\ InitRun
    /\ sat_version = MaxVersion
    /\ api_key = FALSE
    /\ tracker = Tracker(RawRecord("A", "New", "", {}, NoneValue),
                         RawRecord("B", "New", "", {}, NoneValue),
                         RawRecord("C", "New", "", {}, NoneValue))
    /\ use_bz_cache = FALSE /\ use_jr_cache = FALSE
    /\ bz_file = NoFile /\ jr_file = NoFile
    /\ items = <<>>
    /\ bz_filters = NoFilter
    /\ jr_filters = NoFilter

InitRedmine == PluginIdle /\ DecoratorsImported /\ RepositoriesIdle

NextRedmine ==
    \/ CallClosedIssueStatuses
    \/ CallRedmineBug

SpecRedmine == InitRedmine /\ [][NextRedmine]_vars

----------------------------------------------------------------------------
(* robottelo/host_helpers/repository_mixins.py: repositories and their
   collection. A repository is [cls, cdn, url, data, distro, created]: its
   class, the cdn argument it was built with, the value its url property
   gives, whether constants.REPOS has data for its key and the distro of the
   collection, its distro, and whether _repo_info is set. Server calls
   succeed; the calls an operation makes are kept in order. *)

Repo(cls, cdn, url, data) ==
    [cls |-> cls, cdn |-> cdn, url |-> url, data |-> data,
     distro |-> "default", created |-> FALSE]

\* the repositories tests build
RepoChoices ==
    {Repo("RHELRepository", FALSE, NoneValue, TRUE),
     Repo("RHELRepository", FALSE, "url", TRUE),
     Repo("RHELRepository", TRUE, "url", TRUE),
     Repo("SatelliteToolsRepository", FALSE, "url", TRUE),
     Repo("SatelliteToolsRepository", TRUE, NoneValue, FALSE),
     Repo("YumRepository", FALSE, "url", TRUE)}

\* what add_item can be given: a repository or some other object
AddChoices == RepoChoices \cup {Repo("object", FALSE, NoneValue, TRUE)}

ItemLists == UNION {[1..n -> AddChoices] : n \in 0..MaxAdd}

\* the subclasses of GenericRHRepository, lines 442-497
IsGenericRH(repo) == repo.cls \in {"RHELRepository", "SatelliteToolsRepository"}

\* the cdn property: BaseRepository lines 48-50, GenericRHRepository lines 271-273
Cdn(repo, setting) ==
    IF IsGenericRH(repo) THEN repo.cdn \/ setting \/ repo.url = NoneValue
    ELSE FALSE

\* BaseRepository.create, lines 81-104
BaseCreate(repo, download_policy, synchronize) ==
    [raised |-> "none",
     calls |-> <<"make_repository">>
               \o (IF synchronize THEN <<"Repository.synchronize">> ELSE <<>>)]

\* GenericRHRepository.create, lines 394-439, listed telling that
\* Repository.list finds the repository enabled already; the call of line
\* 438 leaves synchronize at its default
GenericCreate(repo, setting, listed, download_policy, synchronize) ==
    IF ~Cdn(repo, setting) /\ repo.url = NoneValue
    THEN [raised |-> "ValueError", calls |-> <<>>]
    ELSE IF Cdn(repo, setting)
    THEN [raised |-> "none",
          calls |-> <<"Repository.list">>
                    \o (IF listed THEN <<>> ELSE <<"RepositorySet.enable">>)
                    \o <<"Repository.info">>
                    \o (IF download_policy # NoneValue THEN <<"Repository.update">> ELSE <<>>)
                    \o (IF synchronize THEN <<"Repository.synchronize">> ELSE <<>>)]
    ELSE BaseCreate(repo, download_policy, TRUE)

\* repo.create(...) as the class of repo resolves it
create(repo, setting, listed, download_policy, synchronize) ==
    IF IsGenericRH(repo)
    THEN GenericCreate(repo, setting, listed, download_policy, synchronize)
    ELSE BaseCreate(repo, download_policy, synchronize)

\* how a call on the collection ends: the collection after it, the
\* exception it raised, what it returned, the server calls it made
Ret(c, raised, ret, calls) ==
    [c |-> c, raised |-> raised, ret |-> ret, calls |-> calls]

\* a variant of add_item without the check of line 591
AddItemAfterCreation(c, item) ==
    IF item.cls = "object" THEN Ret(c, "ValueError", NoneValue, <<>>)
    ELSE IF c.distro # NoneValue /\ IsGenericRH(item) /\ ~item.data
    THEN Ret(c, "RepositoryDataNotFound", NoneValue, <<>>)
    ELSE LET it == IF c.distro # NoneValue THEN [item EXCEPT !.distro = c.distro]
                   ELSE item
             c1 == [c EXCEPT !.items = Append(@, it)]
         IN  IF it.cls # "RHELRepository" THEN Ret(c1, "none", NoneValue, <<>>)
             ELSE IF c1.os_repo # 0
             THEN Ret(c1, "OnlyOneOSRepositoryAllowed", NoneValue, <<>>)
             ELSE Ret([c1 EXCEPT !.os_repo = Len(c1.items)], "none", NoneValue, <<>>)

\* add_item, lines 584-599, with the os_repo setter of lines 540-546 and the
\* distro setter of lines 283-296. The distro of a collection is None or a
\* supported one (line 515), so that line 289 does not raise here; line 545
\* does not either, after the test of line 598
add_item(c, item) ==
    IF c.repos_info # <<>> THEN Ret(c, "RepositoryAlreadyCreated", NoneValue, <<>>)
    ELSE IF item.cls = "object" THEN Ret(c, "ValueError", NoneValue, <<>>)
    ELSE IF c.distro # NoneValue /\ IsGenericRH(item) /\ ~item.data
    THEN Ret(c, "RepositoryDataNotFound", NoneValue, <<>>)
    ELSE LET it == IF c.distro # NoneValue THEN [item EXCEPT !.distro = c.distro]
                   ELSE item
             c1 == [c EXCEPT !.items = Append(@, it)]
         IN  IF it.cls # "RHELRepository" THEN Ret(c1, "none", NoneValue, <<>>)
             ELSE IF c1.os_repo # 0
             THEN Ret(c1, "OnlyOneOSRepositoryAllowed", NoneValue, <<>>)
             ELSE Ret([c1 EXCEPT !.os_repo = Len(c1.items)], "none", NoneValue, <<>>)

RECURSIVE AddFrom(_, _, _)
\* add_items, lines 601-609, from position i of the list on
AddFrom(c, list, i) ==
    IF i > Len(list) THEN Ret(c, "none", NoneValue, <<>>)
    ELSE LET r == add_item(c, list[i])
         IN  IF r.raised # "none" THEN r ELSE AddFrom(r.c, list, i + 1)

add_items(c, list) == AddFrom(c, list, 1)

RECURSIVE CreateAll(_, _, _, _, _, _, _)
\* the loop of lines 629-636 from item i on; acc holds the items, the
\* repos_info list and the server calls so far
CreateAll(acc, i, setting, listed, download_policy, synchronize, custom) ==
    IF i > Len(acc.items) THEN acc
    ELSE LET r == create(acc.items[i], setting, listed, download_policy, synchronize)
         IN  IF r.raised # "none"
             THEN [acc EXCEPT !.raised = r.raised, !.calls = @ \o r.calls]
             ELSE CreateAll(
                    [items |-> [acc.items EXCEPT ![i].created = TRUE],
                     infos |-> Append(acc.infos,
                                      [repo |-> i,
                                       red_hat |-> Cdn(acc.items[i], setting)]),
                     calls |-> acc.calls \o r.calls,
                     raised |-> "none"],
                    i + 1, setting, listed, download_policy, synchronize, custom)

\* some repository of the collection is not a CDN one (line 624)
AnyCustom(c, setting) == \E i \in DOMAIN c.items : ~Cdn(c.items[i], setting)

\* setup, lines 614-646. Line 640 reads custom_product.organization: None
\* has no such attribute, and has_org tells whether what make_product_wait
\* returned has one
setup(c, setting, listed, download_policy, synchronize, has_org) ==
    IF c.repos_info # <<>>
    THEN Ret(c, "RepositoryAlreadyCreated", NoneValue, <<>>)
    ELSE LET custom == AnyCustom(c, setting)
             r == CreateAll([items |-> c.items, infos |-> <<>>,
                             calls |-> IF custom THEN <<"make_product_wait">>
                                       ELSE <<>>,
                             raised |-> "none"],
                            1, setting, listed, download_policy, synchronize, custom)
             c1 == [c EXCEPT !.items = r.items]
             c2 == [c1 EXCEPT !.custom_product_info =
                                  IF custom THEN "product" ELSE NoneValue,
                              !.repos_info = r.infos]
         IN  IF r.raised # "none" THEN Ret(c1, r.raised, NoneValue, r.calls)
             ELSE IF ~custom \/ ~has_org
             THEN Ret(c2, "AttributeError", NoneValue, r.calls)
             ELSE Ret(c2, "none", "(product, repos_info)",
                      Append(r.calls, "wait_for_tasks"))

\* setup_content, lines 744-795: setup with the download policy given and
\* synchronize at its default, then the content view and the activation
\* key, whose subscriptions are found or not (line 732)
setup_content(c, setting, listed, has_org, subs_found) ==
    IF c.repos_info # <<>>
    THEN Ret(c, "RepositoryAlreadyCreated", NoneValue, <<>>)
    ELSE LET s == setup(c, setting, listed, "on_demand", TRUE, has_org)
         IN  IF s.raised # "none" THEN s
             ELSE IF ~subs_found
             THEN Ret(s.c, "ValueError", NoneValue,
                      s.calls \o <<"setup_content_view", "setup_activation_key">>)
             ELSE Ret([s.c EXCEPT !.setup_content_data = "data", !.org = "org"],
                      "none", "setup_content_data",
                      s.calls \o <<"setup_content_view", "setup_activation_key",
                                   "Org.info">>)

\* the call ended as r says
Called(op, arg, r) ==
    /\ Len(r.c.items) <= MaxItems
    /\ collection' = r.c
    /\ repo_call' = [op |-> op, arg |-> arg, raised |-> r.raised, ret |-> r.ret,
                     calls |-> r.calls]
    /\ UNCHANGED <<settings_cdn, plugin_state, decorators_state>>

AddItem ==
    \E item \in AddChoices :
        Called("add_item", <<1>>, add_item(collection, item))

AddItems ==
    \E list \in ItemLists :
        Called("add_items", <<Len(list)>>, add_items(collection, list))

Setup ==
    \E listed \in BOOLEAN, synchronize \in BOOLEAN, has_org \in BOOLEAN :
        Called("setup", <<>>,
               setup(collection, settings_cdn, listed, "on_demand", synchronize,
                     has_org))

SetupContent ==
    \E listed \in BOOLEAN, has_org \in BOOLEAN, subs_found \in BOOLEAN :
        Called("setup_content", <<>>,
               setup_content(collection, settings_cdn, listed, has_org, subs_found))

\* create() called on a repository that is in no collection, before the
\* collection is used
CreateRepository ==
    /\ collection.items = <<>>
    /\ \E repo \in RepoChoices, listed \in BOOLEAN, synchronize \in BOOLEAN :
        LET r == create(repo, settings_cdn, listed, "on_demand", synchronize)
        IN  Called("create", <<repo>>,
                   Ret(collection, r.raised,
                       IF r.raised = "none" THEN "repo_info" ELSE NoneValue,
                       r.calls))

\* a collection built with no repository, for a distro or none
InitRepositories ==
    /\ PluginIdle
    /\ DecoratorsImported
    /\ settings_cdn \in BOOLEAN
    /\ \E d \in {NoneValue, "rhel7"} : collection = NewCollection(d)
    /\ repo_call = NoRepoCall

NextRepositories ==
    \/ AddItem
    \/ AddItems
    \/ Setup
    \/ SetupContent
    \/ CreateRepository

SpecRepositories == InitRepositories /\ [][NextRepositories]_vars

----------------------------------------------------------------------------
(* Properties *)

\* the record at address a was fetched in this run, not loaded from the cache file
Fetched(a) == a > loaded

\* is_open_jr computes on the record at a: nothing stored, the chain ends
Computes(a) == heap[a].is_open = NoneValue /\ follow_duplicates(heap, a) # 0

\* the duplicate-followed record of the record at a
Followed(a) == heap[follow_duplicates(heap, a)]

\* closed, not resolved as Obsolete, with a fix version
ClosedFixed(jr) ==
    /\ jr.status \in CLOSED_STATUSES
    /\ jr.resolution # "Obsolete"
    /\ jr.fixVersions # {}

\* the record the index holds for the issue of item i, when the item has
\* been given its skipif marker
SkipRecord(i) == collected_data.ent[items[i].issue].data

SkipMarked(i) ==
    /\ items[i].skipif # "unset"
    /\ items[i].issue \in Keys(collected_data)
    /\ SkipRecord(i) # 0
    /\ Fetched(SkipRecord(i))
    /\ follow_duplicates(heap, SkipRecord(i)) # 0

\* C1: a record with no stored is_open whose duplicate-followed status is
\* Release Pending or Closed, whose resolution is not Obsolete and whose
\* minimum fixVersion is at or below the server version makes is_open_jr
\* return a false value, and a test marked skip_if_open on it is not skipped.
C1_FixedIsNotOpen ==
    /\ \A a \in DOMAIN heap :
          (/\ pc = "stamp" /\ a = jr_data[idx]
           /\ Computes(a)
           /\ ClosedFixed(Followed(a))
           /\ Min(Followed(a).fixVersions) <= sat_version)
          => ~Truthy(is_open_jr(heap, a))
    /\ \A i \in DOMAIN items :
          (/\ SkipMarked(i)
           /\ ClosedFixed(Followed(SkipRecord(i)))
           /\ Min(Followed(SkipRecord(i)).fixVersions) <= sat_version)
          => ~Truthy(items[i].skipif)

\* C2: a record with no stored is_open whose duplicate-followed status is
\* Release Pending or Closed, whose resolution is not Obsolete and whose
\* minimum fixVersion is above the server version makes is_open_jr return
\* True, and a test marked skip_if_open on it is skipped.
C2_UnfixedIsOpen ==
    /\ \A a \in DOMAIN heap :
          (/\ Computes(a)
           /\ ClosedFixed(Followed(a))
           /\ Min(Followed(a).fixVersions) > sat_version)
          => is_open_jr(heap, a) = "True"
    /\ \A i \in DOMAIN items :
          (/\ SkipMarked(i)
           /\ ClosedFixed(Followed(SkipRecord(i)))
           /\ Min(Followed(SkipRecord(i)).fixVersions) > sat_version)
          => items[i].skipif = "True"

C2_Witness ==
    \E i \in DOMAIN items :
        /\ SkipMarked(i)
        /\ Followed(SkipRecord(i)).status = "Closed"
        /\ Followed(SkipRecord(i)).resolution = "Done"
        /\ Followed(SkipRecord(i)).fixVersions = {10}
        /\ sat_version = 9
        /\ items[i].skipif = "True"

C4_DeselectExactlyObsolete ==
    /\ \A a \in DOMAIN heap :
          (/\ pc = "deselect" /\ HasIssue(items[idx]) /\ a = SkipRecord(idx)
           /\ heap[a].is_deselected = NoneValue
           /\ follow_duplicates(heap, a) # 0)
          => (should_deselect_jr(heap, a) = "True"
              <=> (/\ Followed(a).status \in CLOSED_STATUSES
                   /\ Followed(a).resolution = "Obsolete"))
    /\ \A i \in DOMAIN items :
          (/\ items[i].deselect
           /\ SkipRecord(i) # 0
           /\ Fetched(SkipRecord(i))
           /\ follow_duplicates(heap, SkipRecord(i)) # 0)
          => (/\ Followed(SkipRecord(i)).status \in CLOSED_STATUSES
              /\ Followed(SkipRecord(i)).resolution = "Obsolete")

\* C5: a record with no stored is_open that is Release Pending or Closed
\* with resolution Obsolete is open for is_open_jr, whatever its fixVersions
\* and the server version.
C5_ObsoleteIsOpen ==
    /\ \A a \in DOMAIN heap :
          (/\ Computes(a)
           /\ Followed(a).status \in CLOSED_STATUSES
           /\ Followed(a).resolution = "Obsolete")
          => is_open_jr(heap, a) = "True"
    /\ \A i \in DOMAIN items :
          (/\ SkipMarked(i)
           /\ Followed(SkipRecord(i)).status \in CLOSED_STATUSES
           /\ Followed(SkipRecord(i)).resolution = "Obsolete")
          => items[i].skipif = "True"

C5_Witness ==
    \E i \in DOMAIN items :
        /\ SkipMarked(i)
        /\ Followed(SkipRecord(i)).status = "Closed"
        /\ Followed(SkipRecord(i)).resolution = "Obsolete"
        /\ Followed(SkipRecord(i)).fixVersions = {10}
        /\ sat_version = 11
        /\ items[i].skipif = "True"

\* the tracker chain n -> b -> c: n is a duplicate of b, b of c, c of nothing
Chain(n, b, c) ==
    /\ Cardinality({n, b, c}) = 3
    /\ tracker[n].resolution = "Duplicate" /\ tracker[n].dupe_of = b
    /\ tracker[b].resolution = "Duplicate" /\ tracker[b].dupe_of = c
    /\ tracker[c].resolution # "Duplicate"

\* C6: duplicate following is transitive. When A is a duplicate of B and B of
\* C, the is_open value collect_data_jr stores for A is the one computed from
\* C's record, whether or not B or C is referenced by a test.
C6_DuplicatesTransitive ==
    \A a \in DOMAIN heap : \A b, c \in Numbers :
        (/\ api_key /\ cached_data = <<>>
         /\ heap[a].id \in Keys(collected_data)
         /\ collected_data.ent[heap[a].id].data = a
         /\ collected_data.ent[heap[a].id].used_in > 0
         /\ heap[a].is_open # NoneValue
         /\ Chain(heap[a].id, b, c)
         /\ ~IsException(IsOpenComputed(tracker[c])))
        => heap[a].is_open = IsOpenComputed(tracker[c])

\* C7: duplicate following terminates for every tracker and cache content,
\* a duplicate cycle included: no run ends in the unbounded recursion of
\* follow_duplicates.
C7_FollowTerminates ==
    /\ error # "RecursionError"
    /\ \A a \in DOMAIN heap : follow_duplicates(heap, a) # 0

\* every attempt of the get_data_jr call in progress has failed
AllAttemptsFailed ==
    /\ attempt >= StopAfterAttempt
    /\ memo_get_data[call.nums] = <<>>

\* C8: when every attempt of the remote request fails, collection is not
\* aborted: collect_data_jr goes on with one default record, is_open True,
\* for every requested issue.
C8_RetriesExhaustedGiveDefaults ==
    (call.ret = "batch" /\ AllAttemptsFailed)
    => /\ pc # "error"
       /\ Len(jr_data) = Cardinality(call.nums)
       /\ \A i \in DOMAIN jr_data :
             /\ heap[jr_data[i]].id \in call.nums
             /\ heap[jr_data[i]].is_open = "True"

\* the keys the markers of the processed items gave the index, in order: the
\* numbers collect_data_jr requests
MarkerKeys ==
    SelectSeq(collected_data.order, LAMBDA n : collected_data.ent[n].used_in > 0)

\* C9: with no API key, an empty memo and no cache data, get_data_jr sends
\* no request and returns one default record per requested number (is_open
\* True, is_deselected False); is_open_jr is True and should_deselect_jr is
\* False on each of them, so the test is skipped and not deselected.
C9_NoKeyGivesDefaults ==
    (~api_key /\ cached_data = <<>>)
    => /\ requests = 0
       /\ pc \notin {"load", "build", "get_data"}
          => /\ Len(jr_data) = Len(MarkerKeys)
             /\ \A i \in DOMAIN jr_data :
                   /\ heap[jr_data[i]] = get_default_jr(MarkerKeys[i])
                   /\ heap[jr_data[i]].is_open = "True"
                   /\ heap[jr_data[i]].is_deselected = "False"
                   /\ is_open_jr(heap, jr_data[i]) = "True"
                   /\ should_deselect_jr(heap, jr_data[i]) = "False"
       /\ \A i \in DOMAIN items :
             /\ items[i].skipif \in {"unset", "True"}
             /\ ~items[i].deselect

C9_Witness ==
    /\ ~api_key /\ cached_data = <<>>
    /\ pc = "done"
    /\ Len(jr_data) = 2
    /\ \E i \in DOMAIN items : items[i].skipif = "True"

\* the items whose BZ marker arguments meet the set F, in collection order
RECURSIVE Matching(_, _)
Matching(F, i) ==
    IF i > Len(items) THEN <<>>
    ELSE (IF items[i].bz_marks \cap F # {} THEN <<i>> ELSE <<>>) \o Matching(F, i + 1)

RECURSIVE NotMatching(_, _)
NotMatching(F, i) ==
    IF i > Len(items) THEN <<>>
    ELSE (IF items[i].bz_marks \cap F = {} THEN <<i>> ELSE <<>>) \o NotMatching(F, i + 1)

\* C10: with only --BZ given, pytest_collection_modifyitems completes and
\* keeps exactly the items whose BZ marker arguments meet the filter, the
\* others being reported deselected; with neither --BZ nor --JR every item
\* stays selected.
C10_BzFilterSelects ==
    /\ (bz_filters.given /\ ~jr_filters.given)
       => /\ error # "TypeError"
          /\ pc = "done"
             => /\ selected = Matching(bz_filters.vals, 1)
                /\ deselected = NotMatching(bz_filters.vals, 1)
    /\ (~bz_filters.given /\ ~jr_filters.given /\ pc = "done")
       => /\ selected = [i \in DOMAIN items |-> i]
          /\ deselected = <<>>

\* C11: when both --BZ and --JR are given, an item is selected only if its
\* BZ marks meet the BZ filter and its JR marks meet the JR filter; a filter
\* that is not given places no constraint (the hook completes and selects
\* by the other filter alone).
C11_BothFiltersAnd ==
    /\ (bz_filters.given /\ jr_filters.given /\ pc = "done")
       => \A k \in DOMAIN selected :
             /\ items[selected[k]].bz_marks \cap bz_filters.vals # {}
             /\ items[selected[k]].jr_marks \cap jr_filters.vals # {}
    /\ (~bz_filters.given /\ jr_filters.given)
       => /\ error # "TypeError"
          /\ pc = "done"
             => \A i \in DOMAIN items :
                   items[i].jr_marks \cap jr_filters.vals # {}
                   => \E k \in DOMAIN selected : selected[k] = i

\* the cache file lines 204-230 loaded in this run
LoadedFile == IF use_jr_cache /\ jr_file.exists THEN jr_file ELSE bz_file

\* the data dict a cache file holds for number n
Written(f, n) ==
    LET i == CHOOSE j \in DOMAIN f.ent : f.ent[j][1] = n
    IN  f.ent[i][2][1]

\* the issues the markers of the items name
Referenced == {items[i].issue : i \in {j \in DOMAIN items : HasIssue(items[j])}}

\* C12: cache round trip. A run that loads the cache file an earlier run
\* wrote for the same tests sends no request to the tracker, does not fail,
\* and resolves every referenced issue to a record with the status, the
\* resolution and the is_open value the file holds for it.
C12_CacheRoundTrip ==
    ~cache_is_none
    => /\ requests = 0
       /\ pc # "error"
       /\ pc \in {"write", "modify", "done"}
          => \A n \in Referenced :
                /\ n \in Keys(collected_data)
                /\ collected_data.ent[n].data # 0
                /\ \E j \in DOMAIN LoadedFile.ent : LoadedFile.ent[j][1] = n
                /\ LET r == heap[collected_data.ent[n].data]
                       w == Written(LoadedFile, n)
                   IN  /\ r.id = n
                       /\ r.status = w.status
                       /\ r.resolution = w.resolution
                       /\ r.is_open = w.is_open
                       /\ w.is_open # NoneValue

\* C13: for each of --bz-cache and --jr-cache that is set, when
\* generate_issue_collection has returned the cache file of that tracker
\* exists and holds the index with its "_meta" entry, whether it was there
\* when collection started or not, for every combination of the two flags
\* and of the files in place; a missing file never makes the loading fail.
C13_MissingCacheFileWritten ==
    /\ pc = "build" => error = ""
    /\ pc \in {"modify", "done"}
       => /\ use_bz_cache => (bz_file.exists /\ bz_file.meta)
          /\ use_jr_cache => (jr_file.exists /\ jr_file.meta)

\* the cache data injected into the get_data_jr call in progress: the loaded
\* cache for collect_data_jr and collect_dupes, none for try_from_cache
CallCache == IF call.ret \in {"batch", "dupes"} THEN cached_data ELSE <<>>

\* C14: get_data_jr answers a non-empty request from the memo of that set of
\* numbers if it has one, otherwise from the injected cache data, otherwise
\* (with an API key) from the tracker: a request is sent only when the memo
\* has no entry for the requested set and no cache data was injected, and
\* the batch call of collect_data_jr returns the memo entry, else the
\* records of the cache, without a request.
C14_LookupOrder ==
    [][/\ pc' = "remote"
          => /\ memo_get_data[call'.nums] = <<>>
             /\ CallCache' = <<>>
             /\ api_key
       /\ (pc = "get_data" /\ collected_data.order # <<>>)
          => LET key == SeqToSet(collected_data.order)
             IN  IF memo_get_data[key] # <<>>
                 THEN jr_data' = memo_get_data[key] /\ requests' = requests
                 ELSE IF cached_data # <<>>
                 THEN /\ jr_data' = [i \in DOMAIN cached_data |-> cached_data[i][2]]
                      /\ requests' = requests
                      /\ pc' # "remote"
                 ELSE api_key <=> pc' = "remote"]_vars

C14_Witness ==
    /\ pc = "done"
    /\ cached_data = <<>>
    /\ requests = 1
    /\ Len(jr_data) = 2
    /\ memo_get_data[SeqToSet(collected_data.order)] = jr_data

\* C15: once collect_data_jr has returned normally, every key the collector
\* placed in the index for a marker has a non-empty data record, the record
\* of that number, whether get_data_jr answered from the memo, from injected
\* cache data (even a cache that lacks some requested numbers) or from the
\* tracker.
C15_EveryKeyHasData ==
    (pc = "deselect" /\ idx = 1)
    => \A n \in Keys(collected_data) :
          collected_data.ent[n].used_in > 0
          => /\ collected_data.ent[n].data # 0
             /\ heap[collected_data.ent[n].data].id = n

\* C16: when the deselect loop of generate_issue_collection is over, an item
\* carries a deselect marker exactly when should_deselect is true on the
\* record of the issue its marker names, that record then stores
\* is_deselected true, and its duplicate-followed record meets the condition
\* of should_deselect_jr; this holds with and without --BZ/--JR filters, and
\* an item with no recorded issue carries no deselect marker.
C16_DeselectMarkers ==
    pc \in {"write", "modify", "done"}
    => \A i \in DOMAIN items :
          IF HasIssue(items[i]) /\ SkipRecord(i) # 0
          THEN LET a == SkipRecord(i)
               IN  /\ items[i].deselect <=> should_deselect(heap, a) = "True"
                   /\ items[i].deselect => heap[a].is_deselected = "True"
                   /\ (/\ items[i].deselect /\ Fetched(a)
                       /\ heap[a].id # NoneValue
                       /\ follow_duplicates(heap, a) # 0)
                      => ShouldDeselectComputed(Followed(a)) = "True"
          ELSE ~items[i].deselect

C16_Witness ==
    /\ pc = "done"
    /\ bz_filters.given /\ jr_filters.given
    /\ \E i, j \in DOMAIN items :
          /\ items[i].deselect
          /\ heap[SkipRecord(i)].is_deselected = "True"
          /\ heap[SkipRecord(i)].resolution = "Obsolete"
          /\ ~items[j].deselect
          /\ \E k \in DOMAIN selected : selected[k] = j

BareMarker(i) == items[i].marker # "none" /\ items[i].issue = "none"

\* item i is one generate_issue_collection goes through
Scanned(i) == ~items[i].unit /\ items[i].component

C19_FileCreatedWithoutFlag ==
    pc \in {"modify", "done"}
    => /\ ~use_bz_cache => bz_file.exists
       /\ ~use_jr_cache => jr_file.exists

\* generate_issue_collection has gone through the items (lines 237-311)
AfterBuild == pc \notin {"load", "build"} /\ error # "IndexError"

\* the number of usage records the index holds under the key of number n
UsageCount(n) ==
    IF n \in Keys(collected_data) THEN collected_data.ent[n].used_in ELSE 0

\* the items in S whose marker names the issue n
MarkersOn(S, n) == {i \in S : items[i].marker # "none" /\ items[i].issue = n}

C21_MarksOfOwnTracker ==
    \A i \in DOMAIN items :
        /\ items[i].bz_marks \cap Numbers = {}
        /\ (items[i].marker # "none" /\ items[i].docbz = {})
           => items[i].bz_marks = {}

\* C22: one get_data_jr call sends its request at most StopAfterAttempt (4)
\* times: every attempt is counted, the call is over at the first attempt
\* that succeeds (its response is in the memo), and the failure of the 4th
\* attempt ends the call with no further attempt.
C22_AtMostFourAttempts ==
    [][pc = "remote"
       => /\ attempt < StopAfterAttempt
          /\ attempt' = attempt + 1
          /\ requests' = requests + 1
          /\ memo_get_data'[call.nums] # <<>> => pc' # "remote"
          /\ (memo_get_data'[call.nums] = <<>> /\ attempt' = StopAfterAttempt)
             => pc' = "error"
          /\ pc' = "remote" => call' = call]_vars

C22_Witness ==
    /\ pc = "error"
    /\ error = "RetryError"
    /\ attempt = StopAfterAttempt
    /\ requests = StopAfterAttempt + 1

\* C23: get_single_jr(number, cached_data) returns a record of the requested
\* number, from the single-issue memo, the cache entry of the number, a
\* fetch of that number or the default record: the record collect_dupes
\* stores as dupe_data of a duplicate has the id its dupe_of names, and the
\* single-issue memo of a number holds a record of that number, also when a
\* non-empty cache lacks the number.
C23_SingleReturnsRequested ==
    /\ \A a \in DOMAIN heap :
          heap[a].dupe_data # 0 => heap[heap[a].dupe_data].id = heap[a].dupe_of
    /\ \A n \in Numbers :
          memo_get_single[n] # 0 => heap[memo_get_single[n]].id = n

\* C24: whenever pytest_collection_modifyitems returns, the final items list
\* (selected) and the list given to pytest_deselected are disjoint, hold
\* together exactly the collected items, each once, and the final list keeps
\* the order of collection.
C24_SelectedDeselectedPartition ==
    pc = "done"
    => /\ SeqToSet(selected) \cap SeqToSet(deselected) = {}
       /\ SeqToSet(selected) \cup SeqToSet(deselected) = DOMAIN items
       /\ Len(selected) + Len(deselected) = Len(items)
       /\ \A j, k \in DOMAIN selected : j < k => selected[j] < selected[k]

C24_Witness ==
    /\ pc = "done"
    /\ selected = <<2>>
    /\ deselected = <<1>>

\* C25: generate_issue_collection never overwrites a cache file that was in
\* place when collection started. In every step of every run, a cache file
\* changes only in the writing step of lines 358-375, only when its own flag
\* is set and the file did not exist, and it is then written with the index
\* and its "_meta" entry; this for every combination of flags and files.
C25_NoOverwrite ==
    [][/\ bz_file' # bz_file
          => (pc = "write" /\ use_bz_cache /\ ~bz_file.exists /\ bz_file'.meta)
       /\ jr_file' # jr_file
          => (pc = "write" /\ use_jr_cache /\ ~jr_file.exists /\ jr_file'.meta)]_vars

C25_Witness ==
    /\ pc = "modify"
    /\ use_bz_cache /\ ~use_jr_cache
    /\ cache_is_none
    /\ bz_file.exists
    /\ jr_file.exists

\* the ids of the statuses a status list marks is_closed, in its order
ClosedIds(list) ==
    LET c == SelectSeq(list, LAMBDA e : e.is_closed = "true")
    IN  [i \in DOMAIN c |-> c[i].id]

\* the last call sent the issue_statuses.json request and raised
FetchFailed == redmine_call.fetched /\ redmine_call.ret \in {"KeyError", "ConnectionError"}

\* C26: the closed-status memo of decorators.py is fetched from the remote
\* only while it is unset; once set it holds exactly the ids of the statuses
\* that the response it was built from marks is_closed; a call that finds it
\* set returns it without a request; and a fetch that fails, for instance on
\* a response without the status list, leaves the memo unset.
C26_ClosedStatusesMemo ==
    /\ redmine_call.fetched => ~redmine_call.was_set
    /\ (redmine_call.op = "closed_statuses" /\ redmine_call.was_set)
       => (~redmine_call.fetched /\ redmine_call.ret = "list")
    /\ redmine.closed_statuses.set
       => redmine.closed_statuses.ids = ClosedIds(redmine_source.list)
    /\ FetchFailed => ~redmine.closed_statuses.set

\* the repositories of the collection are created: repos_info is not empty
Created == collection.repos_info # <<>>

\* the next call is one of those that lines 591, 620 and 761 guard
GuardedCall == repo_call'.op \in {"add_item", "add_items", "setup", "setup_content"}

\* C27: once a RepositoryCollection has created its repositories (repos_info
\* is not empty after setup), every later add_item, add_items, setup and
\* setup_content raises RepositoryAlreadyCreated and leaves the item list,
\* repos_info, the custom product and setup_content_data as they were.
C27_CreatedCollectionRefusesAll ==
    [][(Created /\ GuardedCall)
       => /\ repo_call'.raised = "RepositoryAlreadyCreated"
          /\ collection' = collection]_vars

\* C27, amended: once the repositories are created, every later add_item,
\* setup, setup_content, and add_items of at least one item raises
\* RepositoryAlreadyCreated; add_items of an empty list returns None without
\* raising; all of them leave the collection as it was.
C27_CreatedCollectionRefuses ==
    [][(Created /\ GuardedCall)
       => /\ collection' = collection
          /\ IF repo_call'.op = "add_items" /\ repo_call'.arg = <<0>>
             THEN repo_call'.raised = "none" /\ repo_call'.ret = NoneValue
             ELSE repo_call'.raised = "RepositoryAlreadyCreated"]_vars

C27_Witness ==
    /\ Created
    /\ collection.custom_product_info = "product"
    /\ collection.setup_content_data = "data"
    /\ repo_call.op = "add_items" /\ repo_call.arg = <<2>>
    /\ repo_call.raised = "RepositoryAlreadyCreated"

\* the positions of the RHELRepository items of a collection
OsItems(c) == {i \in DOMAIN c.items : c.items[i].cls = "RHELRepository"}

\* C28: after any sequence of add_item calls a RepositoryCollection holds at
\* most one RHELRepository item, and that item is its os_repo; an add_item
\* that raises OnlyOneOSRepositoryAllowed, ValueError or
\* DistroNotSupportedError leaves the item list as it was.
C28_OneOsRepository ==
    [][repo_call'.op = "add_item"
       => /\ Cardinality(OsItems(collection')) <= 1
          /\ OsItems(collection') \subseteq {collection'.os_repo}
          /\ repo_call'.raised \in {"OnlyOneOSRepositoryAllowed", "ValueError",
                                   "DistroNotSupportedError"}
             => collection'.items = collection.items]_vars

\* the collection holds repositories and all of them are CDN ones
AllCdn(c) == c.items # <<>> /\ ~AnyCustom(c, settings_cdn)

\* the last call was a setup that went past the check of line 620
SetupRan == repo_call.op = "setup" /\ repo_call.raised # "RepositoryAlreadyCreated"

\* C29: setup on a collection whose repositories are all CDN ones creates no
\* custom product, creates every repository and returns (None, repos_info)
\* without raising; and a setup creates the custom product exactly when some
\* repository of the collection is not a CDN one.
C29_SetupAllCdn ==
    SetupRan
    => /\ ("make_product_wait" \in SeqToSet(repo_call.calls))
          <=> AnyCustom(collection, settings_cdn)
       /\ AllCdn(collection)
          => /\ repo_call.raised = "none"
             /\ repo_call.ret = "(None, repos_info)"
             /\ collection.custom_product_info = NoneValue
             /\ Len(collection.repos_info) = Len(collection.items)
             /\ \A i \in DOMAIN collection.items : collection.items[i].created

\* the last call was create() on a repository built with cdn false and
\* without a URL, the global CDN setting being off
CreateWithoutUrl ==
    /\ repo_call.op = "create"
    /\ ~settings_cdn
    /\ ~repo_call.arg[1].cdn
    /\ repo_call.arg[1].url = NoneValue

\* C30: GenericRHRepository.create raises ValueError and makes no server
\* call whenever the repository was built with cdn false, the global CDN
\* setting is off and no URL is available.
C30_CreateWithoutUrlRaises ==
    CreateWithoutUrl
    => /\ repo_call.raised = "ValueError"
       /\ repo_call.calls = <<>>

====
